---------------------------- MODULE Spec2Model ----------------------------
(***************************************************************************)
(* Settings reconciliation and hotkey capture of shy-to-text: the          *)
(* SettingsSection component (hotkey capture, draft/committed              *)
(* configuration, Apply, gpu-fallback reload), the useAppState hook        *)
(* (initial load, push-event listeners) and the handlers module            *)
(* (saveConfig, handleSelectModel).                                        *)
(*                                                                         *)
(* JavaScript strings that the code takes apart (KeyboardEvent.code) are   *)
(* sequences of one-character strings; strings that the code only builds   *)
(* or compares are TLA+ strings.  A value of type T | null is <<>> (null)  *)
(* or <<v>>.                                                               *)
(***************************************************************************)
EXTENDS Integers, Sequences, FiniteSets, Bags, TLC

VARIABLES
    \* useAppState
    appState, config, models, hasModel, isMultilingual, lastTranscription,
    error, supportedLanguages,
    \* SettingsSection
    pendingConfig, isRecording, gpuDevices,
    \* asynchronous backend calls that have been issued and not yet replied to
    \* (a bag: the code keeps no order among pending promises)
    inflight,
    \* the backend collaborator: its persisted configuration, its loaded model
    \* and the GPU devices of the machine
    backendConfig, backendModel, backendDevices,
    \* the calls of sendNotification (their arguments), console.error log
    notifications, consoleErrors,
    \* number of user and backend initiated events so far
    ops,
    \* observations: the last key event handled and the value keyEventToHotkey
    \* returned for it; the last reset of the draft (what reset it, and
    \* whether the draft it replaced held unsaved edits)
    evt, captured, lastReset

appVars == <<appState, config, models, hasModel, isMultilingual,
             lastTranscription, error, supportedLanguages>>
settingsVars == <<pendingConfig, isRecording, gpuDevices>>
backendVars == <<backendConfig, backendModel, backendDevices>>
outVars == <<notifications, consoleErrors>>
obsVars == <<evt, captured, lastReset>>
vars == <<appVars, settingsVars, inflight, backendVars, outVars, ops, obsVars>>

-----------------------------------------------------------------------------
(* T | null *)
Null == <<>>
Some(v) == <<v>>
Val(o) == o[1]

(* String.prototype.startsWith, String.prototype.slice(n) on a character sequence *)
StartsWith(s, p) == Len(s) >= Len(p) /\ SubSeq(s, 1, Len(p)) = p
Slice(s, n) == SubSeq(s, n + 1, Len(s))

(* the JavaScript string a character sequence stands for *)
RECURSIVE Chars2Str(_)
Chars2Str(s) == IF s = <<>> THEN "" ELSE s[1] \o Chars2Str(Tail(s))

(* Array.prototype.join *)
RECURSIVE Join(_, _)
Join(parts, sep) ==
    IF parts = <<>> THEN ""
    ELSE IF Len(parts) = 1 THEN parts[1]
    ELSE parts[1] \o sep \o Join(Tail(parts), sep)

DigitChars == {"0", "1", "2", "3", "4", "5", "6", "7", "8", "9"}

(* /^F\d+$/.test(code) *)
MatchesFDigits(code) ==
    /\ Len(code) >= 2
    /\ code[1] = "F"
    /\ \A i \in 2..Len(code) : code[i] \in DigitChars

-----------------------------------------------------------------------------
(* HotkeyCodec *)

VALID_KEYS ==
    {"F1", "F2", "F3", "F4", "F5", "F6", "F7", "F8", "F9", "F10", "F11", "F12",
     "A", "B", "C", "D", "E", "F", "G", "H", "I", "J", "K", "L", "M", "N", "O", "P", "Q", "R", "S", "T", "U", "V", "W", "X", "Y", "Z",
     "0", "1", "2", "3", "4", "5", "6", "7", "8", "9",
     "Space"}

(* mutant: the modifiers in another order *)
ModifiersShiftFirst(e) ==
    (IF e.shiftKey THEN <<"Shift">> ELSE <<>>) \o
    (IF e.ctrlKey THEN <<"Ctrl">> ELSE <<>>) \o
    (IF e.altKey THEN <<"Alt">> ELSE <<>>) \o
    (IF e.metaKey THEN <<"Super">> ELSE <<>>)

Modifiers(e) ==
    (IF e.ctrlKey THEN <<"Ctrl">> ELSE <<>>) \o
    (IF e.altKey THEN <<"Alt">> ELSE <<>>) \o
    (IF e.shiftKey THEN <<"Shift">> ELSE <<>>) \o
    (IF e.metaKey THEN <<"Super">> ELSE <<>>)

(* the key token and the isFunctionKey flag the code derives from e.code *)
ResolveKey(code) ==
    IF StartsWith(code, <<"K", "e", "y">>)
        THEN [key |-> Some(Chars2Str(Slice(code, 3))), isFunctionKey |-> FALSE]
    ELSE IF StartsWith(code, <<"D", "i", "g", "i", "t">>)
        THEN [key |-> Some(Chars2Str(Slice(code, 5))), isFunctionKey |-> FALSE]
    ELSE IF StartsWith(code, <<"F">>) /\ MatchesFDigits(code)
        THEN [key |-> Some(Chars2Str(code)), isFunctionKey |-> TRUE]
    ELSE IF code = <<"S", "p", "a", "c", "e">>
        THEN [key |-> Some("Space"), isFunctionKey |-> FALSE]
    ELSE [key |-> Null, isFunctionKey |-> FALSE]

(* mutant: any resolved key is taken *)
IsValidKeyAny(key) == key # Null /\ Val(key) # ""

(* key && VALID_KEYS.has(key) *)
IsValidKey(key) == key # Null /\ Val(key) # "" /\ Val(key) \in VALID_KEYS

(* mutant: no modifier is required *)
LacksModifierNever(isFunctionKey, modifiers) == FALSE

(* Require a modifier for non-function keys *)
LacksModifier(isFunctionKey, modifiers) == ~isFunctionKey /\ Len(modifiers) = 0

keyEventToHotkey(e) ==
    LET modifiers == Modifiers(e)
        r == ResolveKey(e.code)
    IN  IF IsValidKey(r.key)
            THEN IF LacksModifier(r.isFunctionKey, modifiers)
                    THEN Null
                    ELSE Some(Join(modifiers \o <<Val(r.key)>>, "+"))
            ELSE Null

-----------------------------------------------------------------------------
(* Key presses.  PhysicalKeys pairs a KeyboardEvent.code with the            *)
(* KeyboardEvent.key the key produces; a key event adds the four modifier  *)
(* flags.                                                                  *)
PhysicalKeys ==
    {
     [code |-> <<"K", "e", "y", "A">>, key |-> "a"],
     [code |-> <<"K", "e", "y", "F">>, key |-> "f"],
     [code |-> <<"K", "e", "y", "R">>, key |-> "r"],
     [code |-> <<"K", "e", "y", "Z">>, key |-> "z"],
     [code |-> <<"D", "i", "g", "i", "t", "0">>, key |-> "0"],
     [code |-> <<"D", "i", "g", "i", "t", "1">>, key |-> "1"],
     [code |-> <<"D", "i", "g", "i", "t", "9">>, key |-> "9"],
     [code |-> <<"F", "1">>, key |-> "F1"],
     [code |-> <<"F", "2">>, key |-> "F2"],
     [code |-> <<"F", "3">>, key |-> "F3"],
     [code |-> <<"F", "4">>, key |-> "F4"],
     [code |-> <<"F", "5">>, key |-> "F5"],
     [code |-> <<"F", "6">>, key |-> "F6"],
     [code |-> <<"F", "7">>, key |-> "F7"],
     [code |-> <<"F", "8">>, key |-> "F8"],
     [code |-> <<"F", "9">>, key |-> "F9"],
     [code |-> <<"F", "1", "0">>, key |-> "F10"],
     [code |-> <<"F", "1", "1">>, key |-> "F11"],
     [code |-> <<"F", "1", "2">>, key |-> "F12"],
     [code |-> <<"F", "1", "3">>, key |-> "F13"],
     [code |-> <<"F", "2", "4">>, key |-> "F24"],
     [code |-> <<"S", "p", "a", "c", "e">>, key |-> " "],
     [code |-> <<"E", "n", "t", "e", "r">>, key |-> "Enter"],
     [code |-> <<"T", "a", "b">>, key |-> "Tab"],
     [code |-> <<"F", "n">>, key |-> "Fn"],
     [code |-> <<"M", "i", "n", "u", "s">>, key |-> "-"],
     [code |-> <<"S", "h", "i", "f", "t", "L", "e", "f", "t">>, key |-> "Shift"],
     [code |-> <<"C", "o", "n", "t", "r", "o", "l", "L", "e", "f", "t">>, key |-> "Control"],
     [code |-> <<"N", "u", "m", "p", "a", "d", "1">>, key |-> "1"],
     [code |-> <<"E", "s", "c", "a", "p", "e">>, key |-> "Escape"]
    }

KeyEvent(k, c, a, s, m) ==
    [code |-> k.code, key |-> k.key, ctrlKey |-> c, altKey |-> a,
     shiftKey |-> s, metaKey |-> m]

AllKeyEvents ==
    {KeyEvent(k, c, a, s, m) : k \in PhysicalKeys, c \in BOOLEAN, a \in BOOLEAN,
                               s \in BOOLEAN, m \in BOOLEAN}

-----------------------------------------------------------------------------
(* Data the backend collaborator serves *)

MultilingualModelPath == "/models/ggml-small.bin"
EnglishModelPath == "/models/ggml-base.en.bin"

AvailableModels ==
    <<[name |-> "ggml-base.en.bin", path |-> EnglishModelPath, size |-> 147964211],
      [name |-> "ggml-small.bin", path |-> MultilingualModelPath, size |-> 487601967]>>

SupportedLanguageList ==
    <<[code |-> "en", name |-> "English"], [code |-> "it", name |-> "Italian"]>>

GpuDeviceList ==
    <<[id |-> 1, name |-> "CPU-ref", device_type |-> "Cpu", backend |-> "CPU"],
      [id |-> 2, name |-> "RTX", device_type |-> "DiscreteGpu", backend |-> "Vulkan"]>>

(* what a failed call rejects with: the command's error string; a thrown   *)
(* exception is an Error object                                            *)
Rejection(op) == [type |-> "string", text |-> op \o " failed"]
NotificationErrors == {[type |-> "Error", text |-> "notification plugin unavailable"]}

(* String(e) *)
String(e) == IF e.type = "string" THEN e.text ELSE "Error: " \o e.text

(* the states the backend can be in when the window opens *)
BackendInits ==
    {[config |-> [hotkey |-> "F8", language |-> "en", model_path |-> Null,
                  auto_copy |-> FALSE, show_notifications |-> TRUE,
                  use_gpu |-> FALSE, gpu_device |-> 0],
      model |-> Null, devices |-> <<>>],
     [config |-> [hotkey |-> "F9", language |-> "auto",
                  model_path |-> Some(MultilingualModelPath),
                  auto_copy |-> TRUE, show_notifications |-> TRUE,
                  use_gpu |-> TRUE, gpu_device |-> 1],
      model |-> Some(MultilingualModelPath), devices |-> GpuDeviceList]}

-----------------------------------------------------------------------------
(* Backend collaborator: what each command does to the backend's state and *)
(* what it replies.  A reply is [ok |-> TRUE, value |-> v] or              *)
(* [ok |-> FALSE, value |-> e].                                            *)

Ok(v) == [ok |-> TRUE, value |-> v]
Err(e) == [ok |-> FALSE, value |-> e]

IsModelMultilingual(path) == path = MultilingualModelPath

BackendReply(task, bc, bm, bd) ==
    CASE task.op = "get_supported_languages" -> Ok(SupportedLanguageList)
      [] task.op = "load_initial" ->
            Ok([config |-> bc, models |-> AvailableModels, hasModel |-> bm # Null])
      [] task.op = "is_model_multilingual" ->
            IF bm = Null THEN Err(Rejection(task.op))
            ELSE Ok(IsModelMultilingual(Val(bm)))
      [] task.op = "load_model" -> Ok(Null)
      [] task.op = "save_config" -> Ok(Null)
      [] task.op = "get_config" -> Ok(bc)
      [] task.op = "get_gpu_devices" -> Ok(bd)
      [] OTHER -> Ok(Null)

BackendConfigAfter(task, bc) ==
    CASE task.op = "load_model" -> [bc EXCEPT !.model_path = Some(task.arg)]
      [] task.op = "save_config" -> task.arg
      [] OTHER -> bc

BackendModelAfter(task, bm) ==
    IF task.op = "load_model" THEN Some(task.arg) ELSE bm

(* a gpu-fallback: the backend has switched away from the GPU *)
BackendConfigAfterFallback(bc) == [bc EXCEPT !.use_gpu = FALSE]

-----------------------------------------------------------------------------
(* SettingsSection: values computed on every render *)

LanguageCodes(langs) == {langs[i].code : i \in DOMAIN langs}

(* supportedLanguages.filter(lang => lang.code === "en") *)
RECURSIVE FilterEn(_)
FilterEn(langs) ==
    IF langs = <<>> THEN <<>>
    ELSE IF Head(langs).code = "en" THEN <<Head(langs)>> \o FilterEn(Tail(langs))
    ELSE FilterEn(Tail(langs))

(* mutant: Auto-detect is offered for every model *)
availableLanguagesAutoAlways(multilingual, langs) ==
    <<[code |-> "auto", name |-> "Auto-detect"]>>
        \o (IF multilingual THEN langs ELSE FilterEn(langs))

availableLanguages(multilingual, langs) ==
    IF multilingual
        THEN <<[code |-> "auto", name |-> "Auto-detect"]>> \o langs
        ELSE FilterEn(langs)

(* mutant: the GPU fields are not compared *)
hasChangesNoGpu(p, c) ==
    \/ p.hotkey # c.hotkey
    \/ p.language # c.language
    \/ p.auto_copy # c.auto_copy
    \/ p.show_notifications # c.show_notifications

hasChanges(p, c) ==
    \/ p.hotkey # c.hotkey
    \/ p.language # c.language
    \/ p.auto_copy # c.auto_copy
    \/ p.show_notifications # c.show_notifications
    \/ p.use_gpu # c.use_gpu
    \/ p.gpu_device # c.gpu_device

(* Array.prototype.find: the first element with the given code / id, or null *)
RECURSIVE FindLanguage(_, _)
FindLanguage(langs, code) ==
    IF langs = <<>> THEN Null
    ELSE IF Head(langs).code = code THEN Some(Head(langs))
    ELSE FindLanguage(Tail(langs), code)

RECURSIVE FindDevice(_, _)
FindDevice(devs, id) ==
    IF devs = <<>> THEN Null
    ELSE IF Head(devs).id = id THEN Some(Head(devs))
    ELSE FindDevice(Tail(devs), id)

getLanguageName(langs, code) ==
    IF code = "auto" THEN "Auto-detect"
    ELSE LET lang == FindLanguage(langs, code)
         IN  IF lang # Null THEN Val(lang).name ELSE code

(* mutant: the ternary is inverted *)
OnOffInverted(b) == IF b THEN "Off" ELSE "On"

(* flag ? "On" : "Off" *)
OnOff(b) == IF b THEN "On" ELSE "Off"

(* getGpuDeviceLabel: the label of the device select's options and title *)
getGpuDeviceLabel(devs, id) ==
    LET device == FindDevice(devs, id)
    IN  IF device # Null
           THEN Val(device).name \o " (" \o Val(device).backend \o ")"
           ELSE ""

(* mutant: the option label is used for a known device *)
DeviceLabelOrId(devs, id) ==
    LET device == FindDevice(devs, id)
    IN  IF device # Null THEN getGpuDeviceLabel(devs, id) ELSE ToString(id)

(* mutant: the device is not looked up *)
DeviceIdOnly(devs, id) == ToString(id)

(* device?.name ?? id, as rendered inside a template literal *)
DeviceNameOrId(devs, id) ==
    LET device == FindDevice(devs, id)
    IN  IF device # Null THEN Val(device).name ELSE ToString(id)

(* the changes array handleApply builds before it saves *)
Changes(p, c, langs, devs) ==
    (IF p.hotkey # c.hotkey
        THEN <<"Hotkey: \"" \o c.hotkey \o "\" -> \"" \o p.hotkey \o "\"">>
        ELSE <<>>) \o
    (IF p.language # c.language
        THEN <<"Language: " \o getLanguageName(langs, c.language) \o " -> "
                 \o getLanguageName(langs, p.language)>>
        ELSE <<>>) \o
    (IF p.auto_copy # c.auto_copy
        THEN <<"Auto-copy: " \o OnOff(c.auto_copy) \o " -> " \o OnOff(p.auto_copy)>>
        ELSE <<>>) \o
    (IF p.show_notifications # c.show_notifications
        THEN <<"Notifications: " \o OnOff(c.show_notifications) \o " -> "
                 \o OnOff(p.show_notifications)>>
        ELSE <<>>) \o
    (IF p.use_gpu # c.use_gpu
        THEN <<"GPU: " \o OnOff(c.use_gpu) \o " -> " \o OnOff(p.use_gpu)>>
        ELSE <<>>) \o
    (IF p.gpu_device # c.gpu_device
        THEN <<"GPU Device: " \o DeviceNameOrId(devs, c.gpu_device) \o " -> "
                 \o DeviceNameOrId(devs, p.gpu_device)>>
        ELSE <<>>)

-----------------------------------------------------------------------------
(* Asynchronous calls.  A call is issued (added to inflight) and stays     *)
(* there until the backend answers it; the backend handles a call and its  *)
(* reply reaches the awaiting code in one step, and calls are answered in  *)
(* any order.                                                              *)

MaxOps == 3

Call(op, arg, changes, then) ==
    [op |-> op, arg |-> arg, changes |-> changes, then |-> then]

Awaiting(call, op) == BagIn(call, inflight) /\ call.op = op

(* inflight once call has been answered and the calls of issued (a set)   *)
(* have been issued                                                        *)
Answered(call, issued) == (inflight (-) SetToBag({call})) (+) SetToBag(issued)

Issue(call) == inflight (+) SetToBag({call})

(* a call the backend has handled, its reply on the way to the caller *)
Handled(call, reply) ==
    [op |-> call.op, arg |-> call.arg, changes |-> call.changes,
     then |-> call.then, reply |-> reply]

IsHandled(call) == "reply" \in DOMAIN call

(* the replies a call can get now: the one on its way, or else the         *)
(* command's result on the backend as it is, or a rejection                *)
Answers(call) ==
    IF IsHandled(call)
       THEN {call.reply}
       ELSE {BackendReply(call, backendConfig, backendModel, backendDevices)}
                \cup {Err(Rejection(call.op))}

(* what handling a call with that reply does to the backend; nothing when  *)
(* the call was handled before its reply is delivered                      *)
BackendHandle(call, reply) ==
    IF IsHandled(call)
       THEN UNCHANGED <<backendConfig, backendModel, backendDevices>>
       ELSE /\ backendConfig' = IF reply.ok THEN BackendConfigAfter(call, backendConfig)
                                            ELSE backendConfig
            /\ backendModel' = IF reply.ok THEN BackendModelAfter(call, backendModel)
                                           ELSE backendModel
            /\ UNCHANGED backendDevices

Mounted == config # Null

-----------------------------------------------------------------------------
(* useAppState *)

(* mutant: the status starts as recording *)
InitialAppStateRecording == "recording"

(* useState<AppState>("idle") *)
InitialAppState == "idle"

(* the state after the hook's mount effect has run: loadSupportedLanguages  *)
(* and loadInitialData have issued their calls, the listeners are set up     *)
InitWith(b) ==
    /\ appState = InitialAppState
    /\ config = Null
    /\ models = <<>>
    /\ hasModel = FALSE
    /\ isMultilingual = FALSE
    /\ lastTranscription = ""
    /\ error = Null
    /\ supportedLanguages = <<>>
    /\ pendingConfig = Null
    /\ isRecording = FALSE
    /\ gpuDevices = <<>>
    /\ inflight = SetToBag({Call("get_supported_languages", Null, <<>>, ""),
                             Call("load_initial", Null, <<>>, "")})
    /\ backendConfig = b.config
    /\ backendModel = b.model
    /\ backendDevices = b.devices
    /\ notifications = <<>>
    /\ consoleErrors = <<>>
    /\ ops = 0
    /\ evt = Null
    /\ captured = Null
    /\ lastReset = Null

Init == \E b \in BackendInits : InitWith(b)

loadSupportedLanguagesDone(call, reply) ==
    /\ Awaiting(call, "get_supported_languages")
    /\ BackendHandle(call, reply)
    /\ IF reply.ok
          THEN /\ supportedLanguages' = reply.value
               /\ UNCHANGED error
          ELSE /\ error' = Some(String(reply.value))
               /\ UNCHANGED supportedLanguages
    /\ inflight' = Answered(call, {})
    /\ UNCHANGED <<appState, config, models, hasModel, isMultilingual,
                   lastTranscription, settingsVars, outVars, ops,
                   obsVars>>

(* the draft holds edits that have not been applied *)
UnsavedEdits == Mounted /\ pendingConfig # config

(* mutant: the draft follows config on mount only *)
draftOnConfigMountOnly(newConfig) ==
    IF Mounted THEN pendingConfig ELSE Some(newConfig)

(* SettingsSection's draft once config has become newConfig: useState's   *)
(* initial value on mount, the effect on [config] afterwards               *)
draftOnConfig(newConfig) == Some(newConfig)

(* the reply of loadInitialData's Promise.all: setConfig, setModels,        *)
(* setHasModel, then is_model_multilingual when a model is loaded.  The new *)
(* config object mounts SettingsSection (first load) or runs its           *)
(* effect on [config], which resets the draft.                             *)
loadInitialDataDone(call, reply) ==
    /\ Awaiting(call, "load_initial")
    /\ BackendHandle(call, reply)
    /\ IF reply.ok
          THEN LET d == reply.value
               IN  /\ config' = Some(d.config)
                   /\ models' = d.models
                   /\ hasModel' = d.hasModel
                   /\ pendingConfig' = draftOnConfig(d.config)
                   /\ lastReset' = Some([by |-> "config", unsaved |-> UnsavedEdits])
                   /\ inflight' = Answered(call,
                        (IF ~Mounted
                            THEN {Call("get_gpu_devices", Null, <<>>, "")}
                            ELSE {})
                        \cup (IF d.hasModel
                                 THEN {Call("is_model_multilingual", Null, <<>>, "")}
                                 ELSE {}))
                   /\ UNCHANGED error
          ELSE /\ error' = Some(String(reply.value))
               /\ inflight' = Answered(call, {})
               /\ UNCHANGED <<config, models, hasModel, pendingConfig, lastReset>>
    /\ UNCHANGED <<appState, isMultilingual, lastTranscription, supportedLanguages,
                   isRecording, gpuDevices, outVars, ops, evt, captured>>

(* the reply of is_model_multilingual, awaited by loadInitialData (then = "") *)
(* or by handleSelectModel (then = "loadInitialData")                        *)
isModelMultilingualDone(call, reply) ==
    /\ Awaiting(call, "is_model_multilingual")
    /\ BackendHandle(call, reply)
    /\ IF reply.ok
          THEN /\ isMultilingual' = reply.value
               /\ inflight' = Answered(call,
                    IF call.then = "loadInitialData"
                       THEN {Call("load_initial", Null, <<>>, "")}
                       ELSE {})
               /\ UNCHANGED error
          ELSE /\ error' = Some(String(reply.value))
               /\ inflight' = Answered(call, {})
               /\ UNCHANGED isMultilingual
    /\ UNCHANGED <<appState, config, models, hasModel, lastTranscription,
                   supportedLanguages, settingsVars, outVars, ops,
                   obsVars>>

(* mutant: a status change also clears the error *)
stateChangedEventClearsError(payload) ==
    /\ ops < MaxOps
    /\ ops' = ops + 1
    /\ appState' = payload
    /\ error' = Null
    /\ UNCHANGED <<config, models, hasModel, isMultilingual, lastTranscription,
                   supportedLanguages, settingsVars, inflight, backendVars,
                   outVars, obsVars>>

(* the "state-changed" push-event listener *)
stateChangedEvent(payload) ==
    /\ ops < MaxOps
    /\ ops' = ops + 1
    /\ appState' = payload
    /\ UNCHANGED <<config, models, hasModel, isMultilingual, lastTranscription,
                   error, supportedLanguages, settingsVars, inflight,
                   backendVars, outVars, obsVars>>

(* the "transcription" push-event listener *)
transcriptionEvent(payload) ==
    /\ ops < MaxOps
    /\ ops' = ops + 1
    /\ lastTranscription' = payload
    /\ UNCHANGED <<appState, config, models, hasModel, isMultilingual, error,
                   supportedLanguages, settingsVars, inflight, backendVars,
                   outVars, obsVars>>

(* the "error" push-event listener *)
errorEvent(payload) ==
    /\ ops < MaxOps
    /\ ops' = ops + 1
    /\ error' = Some(payload)
    /\ UNCHANGED <<appState, config, models, hasModel, isMultilingual,
                   lastTranscription, supportedLanguages, settingsVars, inflight,
                   backendVars, outVars, obsVars>>

-----------------------------------------------------------------------------
(* handlers *)

ModelPaths(ms) == {ms[i].path : i \in DOMAIN ms}

(* the model select of ModelSection calls handleSelectModel with the value  *)
(* of the chosen option: "" ("Select a model...") or a model's path         *)
handleSelectModel(modelPath) ==
    /\ ops < MaxOps
    /\ models # <<>>
    /\ modelPath \in {""} \cup ModelPaths(models)
    /\ ops' = ops + 1
    /\ IF modelPath = ""
          THEN UNCHANGED inflight
          ELSE inflight' = Issue(Call("load_model", modelPath, <<>>, ""))
    /\ UNCHANGED <<appVars, settingsVars, backendVars, outVars, obsVars>>

loadModelDone(call, reply) ==
    /\ Awaiting(call, "load_model")
    /\ BackendHandle(call, reply)
    /\ IF reply.ok
          THEN /\ hasModel' = TRUE
               /\ error' = Null
               /\ inflight' = Answered(call,
                    {Call("is_model_multilingual", Null, <<>>, "loadInitialData")})
          ELSE /\ error' = Some(String(reply.value))
               /\ inflight' = Answered(call, {})
               /\ UNCHANGED hasModel
    /\ UNCHANGED <<appState, config, models, isMultilingual, lastTranscription,
                   supportedLanguages, settingsVars, outVars, ops,
                   obsVars>>

(* mutant: a failure is not shown *)
saveConfigErrorSwallowed(reply) == Null

(* mutant: a successful save leaves the error as it was *)
saveConfigErrorSticky(reply) ==
    IF reply.ok THEN error ELSE Some(String(reply.value))

(* saveConfig after its await: setError(null), or setError(String(e)) *)
saveConfigError(reply) ==
    IF reply.ok THEN Null ELSE Some(String(reply.value))

-----------------------------------------------------------------------------
(* SettingsSection *)

P == Val(pendingConfig)
C == Val(config)

(* the reply of the get_gpu_devices call issued on mount; a rejection is   *)
(* not handled and leaves the list as it is                                *)
gpuDevicesDone(call, reply) ==
    /\ Awaiting(call, "get_gpu_devices")
    /\ BackendHandle(call, reply)
    /\ gpuDevices' = IF reply.ok THEN reply.value ELSE gpuDevices
    /\ inflight' = Answered(call, {})
    /\ UNCHANGED <<appVars, pendingConfig, isRecording, outVars, ops,
                   obsVars>>

(* the gpu-fallback listener up to its await: the backend has fallen back  *)
(* and the listener asks for the configuration                             *)
gpuFallbackEvent ==
    /\ ops < MaxOps
    /\ Mounted
    /\ ops' = ops + 1
    /\ backendConfig' = BackendConfigAfterFallback(backendConfig)
    /\ inflight' = Issue(Call("get_config", Null, <<>>, ""))
    /\ UNCHANGED <<appVars, settingsVars, backendModel, backendDevices, outVars,
                   obsVars>>

(* mutant: once a reload has replaced the draft, later replies are dropped *)
gpuFallbackPendingFirstWins(newConfig) ==
    IF lastReset # Null /\ Val(lastReset).by = "gpu-fallback"
       THEN pendingConfig
       ELSE Some(newConfig)

(* mutant: only the GPU fields of the fetched configuration are taken *)
gpuFallbackPendingGpuOnly(newConfig) ==
    Some([Val(pendingConfig) EXCEPT !.use_gpu = newConfig.use_gpu,
                                    !.gpu_device = newConfig.gpu_device])

(* the gpu-fallback listener after its await: setPendingConfig(newConfig) *)
gpuFallbackPending(newConfig) == Some(newConfig)

gpuFallbackDone(call, reply) ==
    /\ Awaiting(call, "get_config")
    /\ BackendHandle(call, reply)
    /\ IF reply.ok
          THEN /\ pendingConfig' = gpuFallbackPending(reply.value)
               /\ lastReset' = Some([by |-> "gpu-fallback", unsaved |-> UnsavedEdits])
          ELSE UNCHANGED <<pendingConfig, lastReset>>
    /\ inflight' = Answered(call, {})
    /\ UNCHANGED <<appVars, isRecording, gpuDevices, outVars, ops, evt, captured>>

(* the Record / Cancel button *)
toggleRecording ==
    /\ ops < MaxOps
    /\ Mounted
    /\ ops' = ops + 1
    /\ isRecording' = ~isRecording
    /\ UNCHANGED <<appVars, pendingConfig, gpuDevices, inflight, backendVars,
                   outVars, obsVars>>

(* mutant: Escape counts only when no modifier is held *)
IsEscapeUnmodified(e) ==
    e.key = "Escape" /\ ~e.ctrlKey /\ ~e.altKey /\ ~e.shiftKey /\ ~e.metaKey

(* e.key === "Escape" *)
IsEscape(e) == e.key = "Escape"

(* if (hotkey): the value is a string and not the empty one *)
IsTruthy(hotkey) == hotkey # Null /\ Val(hotkey) # ""

(* mutant: a rejected key press empties the draft's hotkey *)
draftAfterKeyClearing(hotkey) ==
    IF IsTruthy(hotkey) THEN Some([P EXCEPT !.hotkey = Val(hotkey)])
    ELSE Some([P EXCEPT !.hotkey = ""])

(* the draft after a key press that is not Escape:                          *)
(* setPendingConfig(prev => ({...prev, hotkey})) inside if (hotkey)         *)
draftAfterKey(hotkey) ==
    IF IsTruthy(hotkey) THEN Some([P EXCEPT !.hotkey = Val(hotkey)])
    ELSE pendingConfig

(* mutant: any key press ends the capture *)
recordingAfterKeyStops(hotkey) == FALSE

(* isRecording after a key press that is not Escape:                        *)
(* setIsRecording(false) inside if (hotkey)                                 *)
recordingAfterKey(hotkey) == IF IsTruthy(hotkey) THEN FALSE ELSE isRecording

(* the keydown listener, attached to the window while isRecording *)
handleKeyDown(e) ==
    /\ ops < MaxOps
    /\ Mounted
    /\ isRecording
    /\ ops' = ops + 1
    /\ evt' = Some(e)
    /\ IF IsEscape(e)
          THEN /\ isRecording' = FALSE
               /\ captured' = Null
               /\ UNCHANGED pendingConfig
          ELSE LET hotkey == keyEventToHotkey(e)
               IN  /\ captured' = Some(hotkey)
                   /\ pendingConfig' = draftAfterKey(hotkey)
                   /\ isRecording' = recordingAfterKey(hotkey)
    /\ UNCHANGED <<appVars, gpuDevices, inflight, backendVars, outVars, lastReset>>

(* mutant: the listener stays attached while Idle *)
keyDownIdleHandled(e) ==
    /\ ops < MaxOps
    /\ Mounted
    /\ ~isRecording
    /\ ops' = ops + 1
    /\ evt' = Some(e)
    /\ captured' = Null
    /\ pendingConfig' = IF IsEscape(e) THEN pendingConfig
                                       ELSE draftAfterKey(keyEventToHotkey(e))
    /\ UNCHANGED <<appVars, isRecording, gpuDevices, inflight, backendVars, outVars,
                   lastReset>>

(* a key press on the window while Idle: the effect on isRecording has     *)
(* removed the listener (or never added it), so no handler runs            *)
keyDownIdle(e) ==
    /\ ops < MaxOps
    /\ Mounted
    /\ ~isRecording
    /\ ops' = ops + 1
    /\ evt' = Some(e)
    /\ captured' = Null
    /\ UNCHANGED <<appVars, settingsVars, inflight, backendVars, outVars, lastReset>>

(* an edit of one field of the draft; the controls' disabled attributes    *)
(* are the guards                                                          *)
Edit ==
    /\ ops < MaxOps
    /\ Mounted
    /\ ops' = ops + 1
    /\ UNCHANGED <<appVars, isRecording, gpuDevices, inflight, backendVars, outVars,
                   obsVars>>

(* the language select's disabled={!hasModel} *)
languageSelectDisabled == ~hasModel

setLanguage(code) ==
    /\ Edit
    /\ ~languageSelectDisabled
    /\ code \in LanguageCodes(availableLanguages(isMultilingual, supportedLanguages))
    /\ code # P.language
    /\ pendingConfig' = Some([P EXCEPT !.language = code])

setAutoCopy ==
    /\ Edit
    /\ pendingConfig' = Some([P EXCEPT !.auto_copy = ~P.auto_copy])

setShowNotifications ==
    /\ Edit
    /\ pendingConfig' = Some([P EXCEPT !.show_notifications = ~P.show_notifications])

(* mutant: the checkbox is not disabled without devices *)
setUseGpuUngated ==
    /\ Edit
    /\ pendingConfig' = Some([P EXCEPT !.use_gpu = ~P.use_gpu])

setUseGpu ==
    /\ Edit
    /\ Len(gpuDevices) # 0
    /\ pendingConfig' = Some([P EXCEPT !.use_gpu = ~P.use_gpu])

setGpuDevice(id) ==
    /\ Edit
    /\ P.use_gpu
    /\ Len(gpuDevices) # 0
    /\ id \in {gpuDevices[i].id : i \in DOMAIN gpuDevices}
    /\ id # P.gpu_device
    /\ pendingConfig' = Some([P EXCEPT !.gpu_device = id])

(* handleApply up to its await: the changes are computed and               *)
(* saveConfig(pendingConfig) invokes save_config                           *)
handleApply ==
    /\ ops < MaxOps
    /\ Mounted
    /\ ops' = ops + 1
    /\ inflight' = Issue(
            Call("save_config", P, Changes(P, C, supportedLanguages, gpuDevices), ""))
    /\ UNCHANGED <<appVars, settingsVars, backendVars, outVars, obsVars>>

(* the Apply button: disabled={!hasChanges}, onClick={handleApply} *)
applyClick ==
    /\ Mounted
    /\ hasChanges(P, C)
    /\ handleApply

(* mutant: an empty change list is notified too *)
ShouldNotifyAlways(changes) == TRUE

(* changes.length > 0 *)
ShouldNotify(changes) == Len(changes) > 0

(* what a call of sendNotification does: it returns (null) or throws *)
SendOutcomes == {Null} \cup {Some(e) : e \in NotificationErrors}

(* mutant: a notification that could not be sent is shown as the error *)
applyErrorShowsThrown(reply, thrown) ==
    IF thrown # Null THEN Some(String(Val(thrown))) ELSE saveConfigError(reply)

(* the visible error when handleApply has finished: what saveConfig set;   *)
(* the catch block around sendNotification only logs                       *)
applyError(reply, thrown) == saveConfigError(reply)

(* the reply of save_config: saveConfig sets or clears the error and       *)
(* returns normally either way; handleApply then calls sendNotification    *)
(* when there are changes, and logs what it throws                         *)
saveConfigDone(call, reply) ==
    /\ Awaiting(call, "save_config")
    /\ BackendHandle(call, reply)
    /\ inflight' = Answered(call, {})
    /\ IF ShouldNotify(call.changes)
          THEN \E thrown \in SendOutcomes :
                  /\ notifications' = Append(notifications,
                        [title |-> "Settings Updated",
                         body |-> Join(call.changes, "\n")])
                  /\ consoleErrors' =
                        IF thrown # Null
                           THEN Append(consoleErrors,
                                    <<"Failed to send notification:", Val(thrown)>>)
                           ELSE consoleErrors
                  /\ error' = applyError(reply, thrown)
          ELSE /\ error' = applyError(reply, Null)
               /\ UNCHANGED <<notifications, consoleErrors>>
    /\ UNCHANGED <<appState, config, models, hasModel, isMultilingual,
                   lastTranscription, supportedLanguages, settingsVars,
                   ops, obsVars>>

-----------------------------------------------------------------------------
(* The application: the handlers, the replies and the listeners that act   *)
(* on the configuration and the error, with the key presses and error      *)
(* payloads of a small set.  The state-changed and transcription           *)
(* listeners, which write appState and lastTranscription and nothing       *)
(* else, run in SpecStatus.                                                *)

KeyR == [code |-> <<"K", "e", "y", "R">>, key |-> "r"]
KeyEscape == [code |-> <<"E", "s", "c", "a", "p", "e">>, key |-> "Escape"]

SomeKeyEvents ==
    {KeyEvent(k, c, FALSE, FALSE, FALSE) : k \in {KeyR, KeyEscape}, c \in BOOLEAN}

ErrorPayloads == {"Transcription failed"}

(* type AppState = "idle" | "recording" | "transcribing" *)
AppStates == {"idle", "recording", "transcribing"}

TranscriptionPayloads == {"hello world", "second take"}

Next ==
    \/ \E call \in BagToSet(inflight) : \E reply \in Answers(call) : loadSupportedLanguagesDone(call, reply)
    \/ \E call \in BagToSet(inflight) : \E reply \in Answers(call) : loadInitialDataDone(call, reply)
    \/ \E call \in BagToSet(inflight) : \E reply \in Answers(call) : isModelMultilingualDone(call, reply)
    \/ \E call \in BagToSet(inflight) : \E reply \in Answers(call) : loadModelDone(call, reply)
    \/ \E call \in BagToSet(inflight) : \E reply \in Answers(call) : gpuDevicesDone(call, reply)
    \/ \E call \in BagToSet(inflight) : \E reply \in Answers(call) : gpuFallbackDone(call, reply)
    \/ \E call \in BagToSet(inflight) : \E reply \in Answers(call) : saveConfigDone(call, reply)
    \/ \E payload \in ErrorPayloads : errorEvent(payload)
    \/ \E modelPath \in {""} \cup ModelPaths(AvailableModels) : handleSelectModel(modelPath)
    \/ gpuFallbackEvent
    \/ toggleRecording
    \/ \E e \in SomeKeyEvents : handleKeyDown(e)
    \/ \E code \in {"auto"} \cup LanguageCodes(SupportedLanguageList) : setLanguage(code)
    \/ setAutoCopy
    \/ setShowNotifications
    \/ setUseGpu
    \/ \E id \in {GpuDeviceList[i].id : i \in DOMAIN GpuDeviceList} : setGpuDevice(id)
    \/ applyClick

Spec == Init /\ [][Next]_vars


-----------------------------------------------------------------------------
(* Hotkey capture alone: SettingsSection is mounted, the startup calls     *)
(* have been answered, and the user presses the Record button and any key  *)
(* of AllKeyEvents                                                         *)

Settled(b) ==
    /\ appState = "idle"
    /\ config = Some(b.config)
    /\ models = AvailableModels
    /\ hasModel = (b.model # Null)
    /\ isMultilingual = (b.model # Null /\ IsModelMultilingual(Val(b.model)))
    /\ lastTranscription = ""
    /\ error = Null
    /\ supportedLanguages = SupportedLanguageList
    /\ pendingConfig = Some(b.config)
    /\ isRecording = FALSE
    /\ gpuDevices = b.devices
    /\ inflight = EmptyBag
    /\ backendConfig = b.config
    /\ backendModel = b.model
    /\ backendDevices = b.devices
    /\ notifications = <<>>
    /\ consoleErrors = <<>>
    /\ ops = 0
    /\ evt = Null
    /\ captured = Null
    /\ lastReset = Some([by |-> "config", unsaved |-> FALSE])

InitCapture == \E b \in BackendInits : Settled(b)

NextCapture ==
    \/ toggleRecording
    \/ \E e \in AllKeyEvents : handleKeyDown(e)

SpecCapture == InitCapture /\ [][NextCapture]_vars


-----------------------------------------------------------------------------
(* Apply alone: SettingsSection is mounted, the startup calls have been     *)
(* answered, the draft holds any edits the controls allow, and handleApply *)
(* is invoked on it, also when nothing differs (the handler itself,        *)
(* without the button's disabled attribute)                                *)

(* a machine whose persisted gpu_device is not among its devices, with an  *)
(* English-only model                                                      *)
StaleDeviceInit ==
    [config |-> [hotkey |-> "F8", language |-> "en",
                 model_path |-> Some(EnglishModelPath),
                 auto_copy |-> FALSE, show_notifications |-> FALSE,
                 use_gpu |-> TRUE, gpu_device |-> 0],
     model |-> Some(EnglishModelPath), devices |-> GpuDeviceList]

ApplyInits == BackendInits \cup {StaleDeviceInit}

CtrlR == KeyEvent(KeyR, TRUE, FALSE, FALSE, FALSE)

(* the drafts the controls can produce from the committed configuration of *)
(* b: a captured hotkey, a language among the options when a model is     *)
(* loaded, the checkboxes, and the GPU fields when there are devices       *)
Drafts(b) ==
    {[b.config EXCEPT !.hotkey = h, !.language = l, !.auto_copy = a,
                      !.show_notifications = n, !.use_gpu = g, !.gpu_device = d] :
        h \in {b.config.hotkey, Val(keyEventToHotkey(CtrlR))},
        l \in {b.config.language} \cup
              (IF b.model # Null
                  THEN LanguageCodes(availableLanguages(
                           IsModelMultilingual(Val(b.model)), SupportedLanguageList))
                  ELSE {}),
        a \in BOOLEAN,
        n \in BOOLEAN,
        g \in IF b.devices # <<>> THEN BOOLEAN ELSE {b.config.use_gpu},
        d \in {b.config.gpu_device} \cup {b.devices[i].id : i \in DOMAIN b.devices}}

InitApply ==
    \E b \in ApplyInits : \E d \in Drafts(b) :
        /\ appState = InitialAppState
        /\ config = Some(b.config)
        /\ models = AvailableModels
        /\ hasModel = (b.model # Null)
        /\ isMultilingual = (b.model # Null /\ IsModelMultilingual(Val(b.model)))
        /\ lastTranscription = ""
        /\ error = Null
        /\ supportedLanguages = SupportedLanguageList
        /\ pendingConfig = Some(d)
        /\ isRecording = FALSE
        /\ gpuDevices = b.devices
        /\ inflight = EmptyBag
        /\ backendConfig = b.config
        /\ backendModel = b.model
        /\ backendDevices = b.devices
        /\ notifications = <<>>
        /\ consoleErrors = <<>>
        /\ ops = 0
        /\ evt = IF d.hotkey # b.config.hotkey THEN Some(CtrlR) ELSE Null
        /\ captured = IF d.hotkey # b.config.hotkey
                         THEN Some(keyEventToHotkey(CtrlR)) ELSE Null
        /\ lastReset = Some([by |-> "config", unsaved |-> FALSE])

NextApply ==
    \/ handleApply
    \/ \E call \in BagToSet(inflight) : \E reply \in Answers(call) : saveConfigDone(call, reply)
    \/ setAutoCopy
    \/ \E id \in {GpuDeviceList[i].id : i \in DOMAIN GpuDeviceList} : setGpuDevice(id)

SpecApply == InitApply /\ [][NextApply]_vars

-----------------------------------------------------------------------------
(* The status snapshot alone: useAppState from its mount on, with the      *)
(* replies of the startup calls and the three push channels                *)

NextStatus ==
    \/ \E call \in BagToSet(inflight) : \E reply \in Answers(call) : loadSupportedLanguagesDone(call, reply)
    \/ \E call \in BagToSet(inflight) : \E reply \in Answers(call) : loadInitialDataDone(call, reply)
    \/ \E call \in BagToSet(inflight) : \E reply \in Answers(call) : isModelMultilingualDone(call, reply)
    \/ \E call \in BagToSet(inflight) : \E reply \in Answers(call) : gpuDevicesDone(call, reply)
    \/ \E payload \in AppStates : stateChangedEvent(payload)
    \/ \E payload \in TranscriptionPayloads : transcriptionEvent(payload)
    \/ \E payload \in ErrorPayloads : errorEvent(payload)

SpecStatus == Init /\ [][NextStatus]_vars

-----------------------------------------------------------------------------
(* The error banner under Apply: from the same drafts, the Apply button    *)
(* and the error push channel interleave with the replies of save_config   *)

NextError ==
    \/ applyClick
    \/ \E call \in BagToSet(inflight) : \E reply \in Answers(call) : saveConfigDone(call, reply)
    \/ \E payload \in ErrorPayloads : errorEvent(payload)

SpecError == InitApply /\ [][NextError]_vars

-----------------------------------------------------------------------------
(* Everything that can write the draft's hotkey: from the settled state,   *)
(* the Record button, key presses while Recording and while Idle, the      *)
(* gpu-fallback reload, and a model selection with its reload of the       *)
(* committed configuration                                                 *)

NextHotkey ==
    \/ toggleRecording
    \/ \E e \in SomeKeyEvents : handleKeyDown(e)
    \/ \E e \in SomeKeyEvents : keyDownIdle(e)
    \/ gpuFallbackEvent
    \/ \E call \in BagToSet(inflight) : \E reply \in Answers(call) : gpuFallbackDone(call, reply)
    \/ \E modelPath \in ModelPaths(AvailableModels) : handleSelectModel(modelPath)
    \/ \E call \in BagToSet(inflight) : \E reply \in Answers(call) : loadModelDone(call, reply)
    \/ \E call \in BagToSet(inflight) : \E reply \in Answers(call) : isModelMultilingualDone(call, reply)
    \/ \E call \in BagToSet(inflight) : \E reply \in Answers(call) : loadInitialDataDone(call, reply)

SpecHotkey == InitCapture /\ [][NextHotkey]_vars

-----------------------------------------------------------------------------
(* Overlapping requests: the backend handles a call at one moment and its  *)
(* reply reaches the caller at a later one, so replies can arrive in       *)
(* another order than the requests were made                               *)

(* the backend handles a call; the reply is on its way *)
backendAnswers(call, reply) ==
    /\ BagIn(call, inflight)
    /\ ~IsHandled(call)
    /\ BackendHandle(call, reply)
    /\ inflight' = Answered(call, {Handled(call, reply)})
    /\ UNCHANGED <<appVars, settingsVars, outVars, ops, obsVars>>

NextOverlap ==
    \/ gpuFallbackEvent
    \/ \E modelPath \in ModelPaths(AvailableModels) : handleSelectModel(modelPath)
    \/ \E call \in BagToSet(inflight) : \E reply \in Answers(call) : backendAnswers(call, reply)
    \/ \E call \in BagToSet(inflight) : \E reply \in Answers(call) : gpuFallbackDone(call, reply)
    \/ \E call \in BagToSet(inflight) : \E reply \in Answers(call) : loadModelDone(call, reply)
    \/ \E call \in BagToSet(inflight) : \E reply \in Answers(call) : isModelMultilingualDone(call, reply)
    \/ \E call \in BagToSet(inflight) : \E reply \in Answers(call) : loadInitialDataDone(call, reply)

SpecOverlap == InitCapture /\ [][NextOverlap]_vars
-----------------------------------------------------------------------------
(* Properties *)

NoCall(op) == \A call \in BagToSet(inflight) : call.op # op

(* the calls of a command that are awaited *)
CallsOf(op) == {call \in BagToSet(inflight) : call.op = op}

TrackedFields ==
    {"hotkey", "language", "auto_copy", "show_notifications", "use_gpu", "gpu_device"}

TrackedDiffer(p, c) == \E f \in TrackedFields : p[f] # c[f]

(* C1: when the save_config call of an Apply succeeds, the committed        *)
(* configuration becomes the draft that was applied, and if the draft has  *)
(* not been edited since, hasChanges is false (the Apply button is         *)
(* disabled again).                                                        *)
C1_ApplyCommitsDraft ==
    [][\A call \in CallsOf("save_config") : \A reply \in Answers(call) :
          (saveConfigDone(call, reply) /\ reply.ok)
              => /\ config' = Some(call.arg)
                 /\ (pendingConfig = Some(call.arg)
                        => ~hasChanges(Val(pendingConfig'), Val(config')))]_vars

(* C2: when the save_config call of an Apply fails, the committed           *)
(* configuration and the draft are unchanged, the visible error becomes    *)
(* the failure message, and no call is issued again (the failed call       *)
(* leaves the calls in flight and nothing joins them).                     *)
C2_ApplyFailureKeepsDraft ==
    [][\A call \in CallsOf("save_config") : \A reply \in Answers(call) :
          (saveConfigDone(call, reply) /\ ~reply.ok)
              => /\ config' = config
                 /\ pendingConfig' = pendingConfig
                 /\ error' = Some(reply.value.text)
                 /\ inflight' = inflight (-) SetToBag({call})]_vars

(* an Apply has failed: its error is shown, the edits are still in the     *)
(* draft and no save_config call is in flight                              *)
C2_Witness ==
    /\ Mounted
    /\ error = Some("save_config failed")
    /\ hasChanges(P, C)
    /\ NoCall("save_config")

(* C3: when the get_config reply of a gpu-fallback event arrives, the       *)
(* draft becomes the fetched configuration, in every field.                *)
C3_FallbackReplacesDraft ==
    [][\A call \in CallsOf("get_config") : \A reply \in Answers(call) :
          (gpuFallbackDone(call, reply) /\ reply.ok)
              => pendingConfig' = Some(reply.value)]_vars

(* a gpu-fallback reload has replaced a draft that held unsaved edits *)
C3_Witness ==
    /\ lastReset = Some([by |-> "gpu-fallback", unsaved |-> TRUE])
    /\ pendingConfig = Some(backendConfig)
    /\ NoCall("get_config")

(* C4: when the get_config reply of a gpu-fallback event arrives, the       *)
(* committed configuration becomes the fetched configuration, the draft    *)
(* equals it and hasChanges is false.                                      *)
C4_FallbackReloadsCommitted ==
    [][\A call \in CallsOf("get_config") : \A reply \in Answers(call) :
          (gpuFallbackDone(call, reply) /\ reply.ok)
              => /\ config' = Some(reply.value)
                 /\ pendingConfig' = config'
                 /\ ~hasChanges(Val(pendingConfig'), Val(config'))]_vars

(* C5: whenever the committed configuration is replaced (the reply of       *)
(* loadInitialData on the initial load or after a model load; any change   *)
(* of config), the draft becomes the new committed configuration, whatever *)
(* edits it held.                                                          *)
C5_ConfigChangeResetsDraft ==
    [][/\ config' # config => pendingConfig' = config'
       /\ \A call \in CallsOf("load_initial") : \A reply \in Answers(call) :
             (loadInitialDataDone(call, reply) /\ reply.ok)
                 => /\ config' = Some(reply.value.config)
                    /\ pendingConfig' = config']_vars

(* a reload of the committed configuration has replaced a draft that held  *)
(* unsaved edits, after a model was loaded                                 *)
C5_Witness ==
    /\ lastReset = Some([by |-> "config", unsaved |-> TRUE])
    /\ pendingConfig = config
    /\ hasModel
    /\ C.model_path # Null

(* C6: hasChanges is true exactly when one of the six tracked fields        *)
(* differs between the draft and the committed configuration; a            *)
(* difference in model_path alone leaves it false.                         *)
C6_HasChangesIffTrackedDiffer ==
    Mounted =>
        /\ hasChanges(P, C) <=> TrackedDiffer(P, C)
        /\ (P.model_path # C.model_path /\ ~TrackedDiffer(P, C)) => ~hasChanges(P, C)

(* the draft and the committed configuration differ in model_path only *)
C6_Witness ==
    /\ Mounted
    /\ P.model_path # C.model_path
    /\ \A f \in TrackedFields : P[f] = C[f]
    /\ ~hasChanges(P, C)

-----------------------------------------------------------------------------
(* Properties of the hotkey capture *)

LetterChars ==
    {"A", "B", "C", "D", "E", "F", "G", "H", "I", "J", "K", "L", "M",
     "N", "O", "P", "Q", "R", "S", "T", "U", "V", "W", "X", "Y", "Z"}

(* the KeyboardEvent.code values of the letter keys, the digit keys and    *)
(* the space bar                                                           *)
PlainKeyCodes ==
    {<<"K", "e", "y", l>> : l \in LetterChars}
        \cup {<<"D", "i", "g", "i", "t", d>> : d \in DigitChars}
        \cup {<<"S", "p", "a", "c", "e">>}

DecimalChars(n) ==
    IF n < 10 THEN <<ToString(n)>> ELSE <<ToString(n \div 10), ToString(n % 10)>>

(* the KeyboardEvent.code values F<lo> .. F<hi> *)
FunctionKeyCodes(lo, hi) == {<<"F">> \o DecimalChars(n) : n \in lo..hi}

NoModifier(e) == ~e.ctrlKey /\ ~e.altKey /\ ~e.shiftKey /\ ~e.metaKey

(* "Ctrl+", "Alt+", "Shift+", "Super+" for the modifiers held, in that order *)
ModifierPrefix(c, a, s, m) ==
    (IF c THEN "Ctrl+" ELSE "") \o (IF a THEN "Alt+" ELSE "")
        \o (IF s THEN "Shift+" ELSE "") \o (IF m THEN "Super+" ELSE "")

FunctionKeyTokens == {"F" \o ToString(n) : n \in 1..12}

KeyTokens == LetterChars \cup DigitChars \cup {"Space"} \cup FunctionKeyTokens

(* the canonical HotkeyCombo strings *)
CanonicalHotkeys ==
    {ModifierPrefix(c, a, s, m) \o k :
        c \in BOOLEAN, a \in BOOLEAN, s \in BOOLEAN, m \in BOOLEAN, k \in KeyTokens}
    \ (KeyTokens \ FunctionKeyTokens)

(* C7: for a key event whose code is that of a letter, a digit or Space and *)
(* whose four modifier flags are false, keyEventToHotkey returns null.     *)
C7_PlainKeyNeedsModifier ==
    (evt # Null /\ captured # Null)
        => ((Val(evt).code \in PlainKeyCodes /\ NoModifier(Val(evt)))
               => Val(captured) = Null)

(* the R key pressed alone was handed to keyEventToHotkey, which returned  *)
(* null                                                                    *)
C7_Witness ==
    /\ evt = Some(KeyEvent(KeyR, FALSE, FALSE, FALSE, FALSE))
    /\ captured = Some(Null)

(* C8: for a key event whose code is one of F1..F12, keyEventToHotkey        *)
(* returns the code itself when no modifier is held and the modifiers, in  *)
(* the order Ctrl, Alt, Shift, Super, joined to the code by + otherwise;   *)
(* for a function-key code outside F1..F12 it returns null.                *)
C8_FunctionKeysAccepted ==
    (evt # Null /\ captured # Null)
        => LET e == Val(evt)
           IN  /\ e.code \in FunctionKeyCodes(1, 12)
                    => Val(captured) =
                         Some(ModifierPrefix(e.ctrlKey, e.altKey, e.shiftKey, e.metaKey)
                                \o Chars2Str(e.code))
               /\ e.code \in FunctionKeyCodes(13, 24) => Val(captured) = Null

(* F9 pressed with Ctrl held was accepted as Ctrl+F9 *)
C8_Witness ==
    /\ evt = Some(KeyEvent([code |-> <<"F", "9">>, key |-> "F9"],
                           TRUE, FALSE, FALSE, FALSE))
    /\ captured = Some(Some("Ctrl+F9"))
    /\ P.hotkey = "Ctrl+F9"

(* C9: the hotkey of the draft, which only capture writes here, is a        *)
(* canonical HotkeyCombo: modifiers in the order Ctrl, Alt, Shift, Super,  *)
(* at most one of each, then one key token of the alphabet, and at least   *)
(* one modifier unless the key token is a function key.                    *)
C9_CapturedHotkeyCanonical ==
    Mounted => P.hotkey \in CanonicalHotkeys

(* R pressed with Shift and Ctrl held was written into the draft as        *)
(* Ctrl+Shift+R                                                            *)
C9_Witness ==
    /\ evt = Some(KeyEvent(KeyR, TRUE, FALSE, TRUE, FALSE))
    /\ captured = Some(Some("Ctrl+Shift+R"))
    /\ P.hotkey = "Ctrl+Shift+R"
    /\ ~isRecording

(* C10: a key press whose key is Escape, received while recording, ends     *)
(* the recording and leaves the draft unchanged, whatever modifiers are    *)
(* held.                                                                   *)
C10_EscapeCancelsCapture ==
    [][(evt' # Null /\ Val(evt').key = "Escape" /\ handleKeyDown(Val(evt')))
          => /\ isRecording' = FALSE
             /\ pendingConfig' = pendingConfig]_vars

(* Escape pressed with Ctrl held has ended a recording; the draft is as    *)
(* committed                                                               *)
C10_Witness ==
    /\ evt = Some(KeyEvent(KeyEscape, TRUE, FALSE, FALSE, FALSE))
    /\ captured = Null
    /\ ~isRecording
    /\ pendingConfig = config


-----------------------------------------------------------------------------
(* Capture state machine *)

(* the step is the keydown listener handling the key press now in evt *)
KeyStep == evt' # Null /\ handleKeyDown(Val(evt'))

(* C11: a key press that keyEventToHotkey rejects (it returns null) while   *)
(* the capture is Recording leaves the capture Recording, leaves the draft *)
(* unchanged and does not touch the error.                                 *)
C11_RejectedKeyKeepsRecording ==
    [][(KeyStep /\ captured' = Some(Null))
          => /\ isRecording' = TRUE
             /\ pendingConfig' = pendingConfig
             /\ error' = error]_vars

(* a key press has been rejected and the capture is still waiting *)
C11_Witness ==
    /\ isRecording
    /\ evt # Null
    /\ Val(evt).key # "Escape"
    /\ captured = Some(Null)

(* the capture state changes by the Record button when Idle *)
StartStep == ~isRecording /\ isRecording' /\ toggleRecording

(* Recording ends by Escape, the draft unchanged *)
EscapeStep ==
    /\ KeyStep
    /\ Val(evt').key = "Escape"
    /\ pendingConfig' = pendingConfig

(* Recording ends by an accepted combo, written into the draft's hotkey *)
AcceptStep ==
    /\ KeyStep
    /\ Val(evt').key # "Escape"
    /\ captured' # Null
    /\ Val(captured') # Null
    /\ pendingConfig' = Some([P EXCEPT !.hotkey = Val(Val(captured'))])

(* Recording ends by the button, which reads Cancel, the draft unchanged *)
CancelStep == toggleRecording /\ pendingConfig' = pendingConfig

(* C12, as stated: the capture state changes only by start (Idle to        *)
(* Recording), by Escape (Recording to Idle, draft unchanged) and by an    *)
(* accepted combo (Recording to Idle, combo written into the draft).       *)
C12_OnlyEscapeOrComboEndsCapture ==
    [][isRecording' # isRecording
          => IF ~isRecording THEN StartStep
             ELSE EscapeStep \/ AcceptStep]_vars

(* C12, amended: the capture state changes only by start, by Escape, by    *)
(* an accepted combo, and by the Record/Cancel button pressed while        *)
(* Recording (Recording to Idle, draft unchanged); no other event and no   *)
(* timer changes it.                                                       *)
C12_CaptureTransitions ==
    [][isRecording' # isRecording
          => IF ~isRecording THEN StartStep
             ELSE EscapeStep \/ AcceptStep \/ CancelStep]_vars

(* a capture was started and ended by an accepted combo, now in the draft *)
C12_Witness ==
    /\ Mounted
    /\ ~isRecording
    /\ captured = Some(Some("Ctrl+R"))
    /\ P.hotkey = "Ctrl+R"
    /\ C.hotkey # "Ctrl+R"

-----------------------------------------------------------------------------
(* Change set and notification *)

(* the save_config call an Apply of draft p with change list cs issues *)
ApplyCall(p, cs) == [op |-> "save_config", arg |-> p, changes |-> cs, then |-> ""]

(* C13: when the draft and the committed configuration agree in every      *)
(* tracked field, handleApply computes an empty change list, and when the  *)
(* save of an Apply with an empty change list returns, sendNotification is *)
(* not called (and nothing is logged).                                     *)
C13_NoChangesNoNotification ==
    [][/\ (handleApply /\ ~TrackedDiffer(P, C))
            => inflight' = inflight (+) SetToBag({ApplyCall(P, <<>>)})
       /\ \A call \in CallsOf("save_config") : \A reply \in Answers(call) :
            (saveConfigDone(call, reply) /\ call.changes = <<>>)
                => /\ notifications' = notifications
                   /\ consoleErrors' = consoleErrors]_vars

(* an Apply of an unedited draft has been answered (here with a failure,   *)
(* which the error shows) and no notification was sent                     *)
C13_Witness ==
    /\ Mounted
    /\ ~TrackedDiffer(P, C)
    /\ ops = 1
    /\ inflight = EmptyBag
    /\ error = Some("save_config failed")
    /\ notifications = <<>>
    /\ consoleErrors = <<>>

FieldOrder ==
    <<"hotkey", "language", "auto_copy", "show_notifications", "use_gpu", "gpu_device">>

Label(f) ==
    CASE f = "hotkey" -> "Hotkey"
      [] f = "language" -> "Language"
      [] f = "auto_copy" -> "Auto-copy"
      [] f = "show_notifications" -> "Notifications"
      [] f = "use_gpu" -> "GPU"
      [] f = "gpu_device" -> "GPU Device"

(* the display name of a language code *)
LanguageDisplay(langs, code) ==
    LET known == {i \in DOMAIN langs : langs[i].code = code}
    IN  IF code = "auto" THEN "Auto-detect"
        ELSE IF known = {} THEN code
        ELSE langs[CHOOSE i \in known : TRUE].name

(* the devices of the list with the given id *)
Known(devs, id) == {i \in DOMAIN devs : devs[i].id = id}

(* the ways a value of field f may be displayed; how a device id is        *)
(* displayed is left to C15 and C16                                        *)
Renderings(f, v, langs, devs) ==
    CASE f = "hotkey" -> {"\"" \o v \o "\""}
      [] f = "language" -> {LanguageDisplay(langs, v)}
      [] f \in {"auto_copy", "show_notifications", "use_gpu"} ->
            {IF v THEN "On" ELSE "Off"}
      [] f = "gpu_device" ->
            {ToString(v)}
              \cup {devs[i].name : i \in Known(devs, v)}
              \cup {devs[i].name \o " (" \o devs[i].backend \o ")" : i \in Known(devs, v)}

ExpectedLines(f, c, p, langs, devs) ==
    {Label(f) \o ": " \o old \o " -> " \o new :
        old \in Renderings(f, c[f], langs, devs),
        new \in Renderings(f, p[f], langs, devs)}

(* the change lists with one line per differing field of fields, in order *)
RECURSIVE ExpectedChangeSets(_, _, _, _, _)
ExpectedChangeSets(fields, c, p, langs, devs) ==
    IF fields = <<>> THEN {<<>>}
    ELSE LET f == Head(fields)
             rest == ExpectedChangeSets(Tail(fields), c, p, langs, devs)
         IN  IF p[f] = c[f] THEN rest
             ELSE {<<line>> \o r : line \in ExpectedLines(f, c, p, langs, devs),
                                    r \in rest}

(* the lines, each but the last followed by a newline *)
RECURSIVE Lines(_)
Lines(ls) ==
    IF Len(ls) = 1 THEN ls[1]
    ELSE Lines(SubSeq(ls, 1, Len(ls) - 1)) \o "\n" \o ls[Len(ls)]

(* C14: an Apply in which k >= 1 tracked fields differ computes k lines,    *)
(* one per differing field and none for an equal one, in the order hotkey, *)
(* language, auto_copy, show_notifications, use_gpu, gpu_device, each      *)
(* "<Label>: <old> -> <new>" with old from the committed configuration and *)
(* new from the draft; when its save returns, sendNotification is called   *)
(* exactly once, with the title "Settings Updated" and these lines, one    *)
(* per line, as the body.                                                  *)
C14_OneLinePerChangedField ==
    [][/\ (handleApply /\ TrackedDiffer(P, C))
            => \E cs \in ExpectedChangeSets(FieldOrder, C, P,
                                            supportedLanguages, gpuDevices) :
                  inflight' = inflight (+) SetToBag({ApplyCall(P, cs)})
       /\ \A call \in CallsOf("save_config") : \A reply \in Answers(call) :
            (saveConfigDone(call, reply) /\ call.changes # <<>>)
                => notifications' = Append(notifications,
                       [title |-> "Settings Updated", body |-> Lines(call.changes)])]_vars

(* an Apply in which all six fields differ has been notified *)
C14_Witness ==
    /\ Len(notifications) = 1
    /\ notifications[1].title = "Settings Updated"
    /\ notifications[1].body =
         "Hotkey: \"F9\" -> \"Ctrl+R\"\nLanguage: Auto-detect -> Italian\n"
           \o "Auto-copy: On -> Off\nNotifications: On -> Off\nGPU: On -> Off\n"
           \o "GPU Device: CPU-ref -> RTX"

(* the step is an Apply whose draft differs from the committed             *)
(* configuration in gpu_device, and line is the last line it computes      *)
GpuLineOfApply(line) ==
    /\ handleApply
    /\ P.gpu_device # C.gpu_device
    /\ \E call \in BagToSet(inflight') :
          /\ call.op = "save_config"
          /\ call.arg = P
          /\ call.changes # <<>>
          /\ call.changes[Len(call.changes)] = line

NameOf(devs, id) == devs[CHOOSE i \in Known(devs, id) : TRUE].name

BackendOf(devs, id) == devs[CHOOSE i \in Known(devs, id) : TRUE].backend

(* a device id as "name (backend)", or the id itself when it is not in the list *)
NameAndBackendOrId(devs, id) ==
    IF Known(devs, id) # {}
       THEN NameOf(devs, id) \o " (" \o BackendOf(devs, id) \o ")"
       ELSE ToString(id)

(* a device id as the device's name, or the id itself when it is not in the list *)
NameOrId(devs, id) ==
    IF Known(devs, id) # {} THEN NameOf(devs, id) ELSE ToString(id)

(* C15, as stated: in the change list a device id that is in the device    *)
(* list is shown as "name (backend)" and one that is not as the id.        *)
C15_DeviceShownWithBackend ==
    [][(handleApply /\ P.gpu_device # C.gpu_device)
          => GpuLineOfApply("GPU Device: "
                 \o NameAndBackendOrId(gpuDevices, C.gpu_device) \o " -> "
                 \o NameAndBackendOrId(gpuDevices, P.gpu_device))]_vars

(* C15, amended: in the change list a device id that is in the device list *)
(* is shown as the name of that device, and one that is not as the id.     *)
C15_DeviceShownByName ==
    [][(handleApply /\ P.gpu_device # C.gpu_device)
          => GpuLineOfApply("GPU Device: "
                 \o NameOrId(gpuDevices, C.gpu_device) \o " -> "
                 \o NameOrId(gpuDevices, P.gpu_device))]_vars

(* an Apply whose committed device is not in the list and whose new        *)
(* device is: the id of the one, the name of the other                     *)
C15_Witness ==
    \E call \in BagToSet(inflight) :
        /\ call.op = "save_config"
        /\ call.changes # <<>>
        /\ call.changes[Len(call.changes)] = "GPU Device: 0 -> RTX"

(* draft and committed configuration differ in gpu_device and nothing else *)
OnlyGpuDeviceDiffers(p, c) ==
    \A f \in TrackedFields : (p[f] # c[f]) <=> (f = "gpu_device")

(* C16: when draft and committed configuration differ only in gpu_device   *)
(* and both ids are in the device list, the change list is the single      *)
(* line "GPU Device: <old name> -> <new name>"; with committed 1, draft 2  *)
(* and the devices 1 CPU-ref and 2 RTX it is "GPU Device: CPU-ref -> RTX". *)
C16_GpuDeviceOnlyChange ==
    [][(/\ handleApply
        /\ OnlyGpuDeviceDiffers(P, C)
        /\ Known(gpuDevices, C.gpu_device) # {}
        /\ Known(gpuDevices, P.gpu_device) # {})
          => /\ inflight' = inflight (+) SetToBag({ApplyCall(P,
                    <<"GPU Device: " \o NameOf(gpuDevices, C.gpu_device) \o " -> "
                        \o NameOf(gpuDevices, P.gpu_device)>>)})
             /\ (C.gpu_device = 1 /\ P.gpu_device = 2 /\ gpuDevices = GpuDeviceList)
                    => inflight' = inflight (+) SetToBag({ApplyCall(P,
                            <<"GPU Device: CPU-ref -> RTX">>)})]_vars

(* the Apply of a change of device 1 to device 2 alone has been notified *)
C16_Witness ==
    /\ Mounted
    /\ C.gpu_device = 1
    /\ Len(notifications) = 1
    /\ notifications[1].body = "GPU Device: CPU-ref -> RTX"

(* C17: when sendNotification throws, the error is what saveConfig left    *)
(* (none after a successful save, the save's failure message otherwise),   *)
(* draft and committed configuration are unchanged, a configuration that   *)
(* was saved stays saved, and the Apply ends: its call is answered and no  *)
(* other is issued.                                                        *)
C17_NotificationFailureSwallowed ==
    [][\A call \in CallsOf("save_config") : \A reply \in Answers(call) :
          (saveConfigDone(call, reply) /\ consoleErrors' # consoleErrors)
              => /\ error' = IF reply.ok THEN Null ELSE Some(reply.value.text)
                 /\ config' = config
                 /\ pendingConfig' = pendingConfig
                 /\ reply.ok => backendConfig' = call.arg
                 /\ inflight' = inflight (-) SetToBag({call})]_vars

(* a notification failure was logged after a successful save: no error is  *)
(* shown and the backend holds the draft                                   *)
C17_Witness ==
    /\ Mounted
    /\ consoleErrors # <<>>
    /\ error = Null
    /\ backendConfig = P
    /\ backendConfig # C
    /\ NoCall("save_config")

-----------------------------------------------------------------------------
(* Status snapshot *)

(* C18: each push channel writes its own field of the snapshot and leaves  *)
(* the two others as they are: state-changed replaces appState,            *)
(* transcription replaces lastTranscription, error replaces error,         *)
(* wherever the event falls among the others.                              *)
C18_ChannelsIndependent ==
    [][/\ \A p \in AppStates :
            stateChangedEvent(p)
                => /\ appState' = p
                   /\ lastTranscription' = lastTranscription
                   /\ error' = error
       /\ \A p \in TranscriptionPayloads :
            transcriptionEvent(p)
                => /\ lastTranscription' = p
                   /\ appState' = appState
                   /\ error' = error
       /\ \A p \in ErrorPayloads :
            errorEvent(p)
                => /\ error' = Some(p)
                   /\ appState' = appState
                   /\ lastTranscription' = lastTranscription]_vars

(* the three channels have each delivered an event *)
C18_Witness ==
    /\ appState = "transcribing"
    /\ lastTranscription = "second take"
    /\ error = Some("Transcription failed")

(* no reply has been handled: both startup calls are still awaited *)
NothingAnswered ==
    /\ ~NoCall("get_supported_languages")
    /\ ~NoCall("load_initial")

(* the messages of the backend calls that can fail at startup *)
StartupFailures ==
    {Some(String(Rejection(op))) :
        op \in {"get_supported_languages", "load_initial", "is_model_multilingual"}}

(* C19, as stated: before any push event arrives the status is idle, the   *)
(* last transcription is empty and there is no error.                      *)
C19_InitialSnapshotNoError ==
    ops = 0 => /\ appState = "idle"
               /\ lastTranscription = ""
               /\ error = Null

(* C19, amended: before any push event arrives the status is idle and the  *)
(* last transcription is empty; there is no error until a reply arrives,   *)
(* and then the only error is the message of a backend call that failed.   *)
C19_InitialSnapshot ==
    ops = 0 => /\ appState = "idle"
               /\ lastTranscription = ""
               /\ NothingAnswered => error = Null
               /\ error # Null => error \in StartupFailures

(* no push event has arrived and the initial load has failed *)
C19_Witness ==
    /\ ops = 0
    /\ appState = "idle"
    /\ lastTranscription = ""
    /\ error = Some("load_initial failed")

-----------------------------------------------------------------------------
(* Availability gating *)

(* C20: a step of the user that changes the draft's language happens while *)
(* a model is loaded; one that changes the draft's gpu_device happens      *)
(* while the draft's use_gpu is true and the device list is not empty; one *)
(* that changes the draft's use_gpu happens while the device list is not   *)
(* empty.  (The draft also changes when a reply resets it; those steps are *)
(* not the user's and leave ops as it is.)                                 *)
C20_EditsAreGated ==
    [][(Mounted /\ ops' # ops)
          => /\ Val(pendingConfig').language # P.language => hasModel
             /\ Val(pendingConfig').gpu_device # P.gpu_device
                    => P.use_gpu /\ Len(gpuDevices) # 0
             /\ Val(pendingConfig').use_gpu # P.use_gpu => Len(gpuDevices) # 0]_vars

(* the three gated fields have been edited, each while its control was     *)
(* enabled                                                                 *)
C20_Witness ==
    /\ Mounted
    /\ ops = 3
    /\ hasModel
    /\ Len(gpuDevices) # 0
    /\ lastReset = Some([by |-> "config", unsaved |-> FALSE])
    /\ P.language # C.language
    /\ P.gpu_device # C.gpu_device
    /\ P.use_gpu # C.use_gpu

-----------------------------------------------------------------------------
(* Language and model *)

(* the codes of the options the language select shows *)
OfferedLanguages ==
    LanguageCodes(availableLanguages(isMultilingual, supportedLanguages))

C22_LanguageFitsModel ==
    (Mounted /\ hasModel /\ backendModel # Null)
        => \A cfg \in {P, C} :
              IF IsModelMultilingual(Val(backendModel))
                 THEN cfg.language \in {"auto"} \cup LanguageCodes(SupportedLanguageList)
                 ELSE cfg.language = "en"

(* an English-only model was loaded over a multilingual one, the reload    *)
(* has completed, and the language is still "auto"                         *)
C22_Witness ==
    /\ Mounted
    /\ hasModel
    /\ ~isMultilingual
    /\ backendModel = Some(EnglishModelPath)
    /\ inflight = EmptyBag
    /\ C.model_path = Some(EnglishModelPath)
    /\ C.language = "auto"
    /\ P.language = "auto"

-----------------------------------------------------------------------------
(* Failures and races *)

(* C23: a failed fetch of the supported languages, of the initial data     *)
(* (configuration and models) or of the GPU devices shows the failure      *)
(* message as the error and leaves what the fetch would have filled at its *)
(* default: no languages, no configuration and no models, no devices.      *)
C23_FetchFailureShown ==
    [][/\ \A call \in CallsOf("get_supported_languages") : \A reply \in Answers(call) :
            (loadSupportedLanguagesDone(call, reply) /\ ~reply.ok)
                => /\ error' = Some(reply.value.text)
                   /\ supportedLanguages' = <<>>
       /\ \A call \in CallsOf("load_initial") : \A reply \in Answers(call) :
            (loadInitialDataDone(call, reply) /\ ~reply.ok)
                => /\ error' = Some(reply.value.text)
                   /\ config' = Null
                   /\ models' = <<>>
       /\ \A call \in CallsOf("get_gpu_devices") : \A reply \in Answers(call) :
            (gpuDevicesDone(call, reply) /\ ~reply.ok)
                => /\ error' = Some(reply.value.text)
                   /\ gpuDevices' = <<>>]_vars

(* the fetch of the GPU devices has failed, alone, and no error is shown *)
C23_Witness ==
    /\ Mounted
    /\ NoCall("get_gpu_devices")
    /\ backendDevices # <<>>
    /\ gpuDevices = <<>>
    /\ error = Null

(* an Apply has been answered: its notification call is logged *)
SomeApplyAnswered == notifications # <<>>

(* a gpu-fallback reload has replaced the draft *)
SomeReloadAnswered == lastReset # Null /\ Val(lastReset).by = "gpu-fallback"

(* neither an Apply nor a reload is awaited *)
BothCompleted == NoCall("save_config") /\ NoCall("get_config")

(* C24: an Apply and a gpu-fallback reload run without excluding each      *)
(* other, and once both have completed, the committed configuration and    *)
(* the draft are what the one that landed last wrote: the fetched          *)
(* configuration in both if the reload landed last, the applied draft as   *)
(* the committed configuration if the Apply landed last.                   *)
C24_LastUpdateWins ==
    [][/\ \A call \in CallsOf("get_config") : \A reply \in Answers(call) :
            (gpuFallbackDone(call, reply) /\ reply.ok /\ SomeApplyAnswered
                /\ BothCompleted')
                => /\ pendingConfig' = Some(reply.value)
                   /\ config' = Some(reply.value)
       /\ \A call \in CallsOf("save_config") : \A reply \in Answers(call) :
            (saveConfigDone(call, reply) /\ reply.ok /\ SomeReloadAnswered
                /\ BothCompleted')
                => config' \in {Some(call.arg), pendingConfig'}]_vars

(* a reload and an Apply are in flight together *)
C24_Witness ==
    /\ ~NoCall("save_config")
    /\ ~NoCall("get_config")

(* C26: sendNotification is called only when a save_config call of an      *)
(* Apply has succeeded; when the call fails, no notification is sent.      *)
C26_NotificationOnlyAfterSave ==
    [][/\ notifications' # notifications
            => \E call \in CallsOf("save_config") : \E reply \in Answers(call) :
                  saveConfigDone(call, reply) /\ reply.ok
       /\ \A call \in CallsOf("save_config") : \A reply \in Answers(call) :
            (saveConfigDone(call, reply) /\ ~reply.ok)
                => notifications' = notifications]_vars

(* a save has failed, its error is shown, and the changes were announced *)
C26_Witness ==
    /\ error = Some("save_config failed")
    /\ notifications # <<>>
    /\ NoCall("save_config")

(* C28: the answer of a save_config call rewrites the error whatever it    *)
(* held and wherever that came from: to null when the call succeeded, to   *)
(* the failure message of the call when it failed.                         *)
C28_SaveRewritesError ==
    [][\A call \in CallsOf("save_config") : \A reply \in Answers(call) :
          saveConfigDone(call, reply)
              => error' = IF reply.ok THEN Null ELSE Some(reply.value.text)]_vars

(* one error push event and one Apply have happened, the Apply announced   *)
(* its changes, and no error is left: the save landed after the event and  *)
(* cleared its message                                                     *)
C28_Witness ==
    /\ ops = 2
    /\ Len(notifications) = 1
    /\ inflight = EmptyBag
    /\ error = Null
    /\ pendingConfig = Some(backendConfig)

(* the hotkey of a draft, null before the draft exists *)
HotkeyOf(draft) == IF draft = Null THEN Null ELSE Some(Val(draft).hotkey)

(* the whole draft is replaced: by the committed configuration when a      *)
(* reload of the initial data lands, by the fetched configuration when a   *)
(* gpu-fallback reload lands                                               *)
DraftResetStep ==
    \/ \E call \in CallsOf("load_initial") : \E reply \in Answers(call) :
          /\ loadInitialDataDone(call, reply)
          /\ reply.ok
          /\ pendingConfig' = config'
    \/ \E call \in CallsOf("get_config") : \E reply \in Answers(call) :
          /\ gpuFallbackDone(call, reply)
          /\ reply.ok
          /\ pendingConfig' = Some(reply.value)

(* the step is a key press on the window while the capture is Idle *)
IdleKeyStep == evt' # Null /\ keyDownIdle(Val(evt'))

(* C27: the draft's hotkey changes only by an accepted combo while the     *)
(* capture is Recording or by a reset of the whole draft, and a key press  *)
(* while the capture is Idle changes neither the draft nor the capture     *)
(* state.                                                                  *)
C27_HotkeyWriters ==
    [][/\ HotkeyOf(pendingConfig') # HotkeyOf(pendingConfig)
            => (isRecording /\ AcceptStep) \/ DraftResetStep
       /\ IdleKeyStep
            => /\ pendingConfig' = pendingConfig
               /\ isRecording' = isRecording]_vars

(* a combo that would be accepted has been pressed while Idle, and the     *)
(* draft still holds the committed hotkey                                  *)
C27_Witness ==
    /\ ~isRecording
    /\ evt = Some(CtrlR)
    /\ captured = Null
    /\ ops = 1
    /\ pendingConfig = config

(* how many calls of a command are awaited *)
InFlight(op) ==
    BagCardinality([call \in CallsOf(op) |-> CopiesIn(call, inflight)])

(* every call but the one answered now is still awaited afterwards *)
OthersStillAwaited(call) ==
    \A other \in BagToSet(inflight) :
        CopiesIn(other, inflight')
            >= CopiesIn(other, inflight) - (IF other = call THEN 1 ELSE 0)

(* a reload's reply meets another reload: one still awaited, or one whose  *)
(* reply has been applied already                                          *)
ReloadMeetsReload == InFlight("get_config") > 1 \/ SomeReloadAnswered

(* the same for the initial data, which has been applied once the          *)
(* settings are mounted                                                    *)
InitialDataMeetsInitialData == InFlight("load_initial") > 1 \/ Mounted

(* C25: no request in flight is cancelled, and when two requests for the   *)
(* same data overlap (two get_config calls of the gpu-fallback listener,   *)
(* two runs of loadInitialData), each reply is applied when it arrives,    *)
(* over what the other one wrote or before the other one writes: the       *)
(* draft, or the committed configuration and the model list, take the      *)
(* value of the reply that arrives, whichever request it answers, and the  *)
(* other request is still awaited.                                         *)
C25_EveryReplyApplied ==
    [][/\ \A call \in CallsOf("get_config") : \A reply \in Answers(call) :
            (gpuFallbackDone(call, reply) /\ reply.ok /\ ReloadMeetsReload)
                => /\ pendingConfig' = Some(reply.value)
                   /\ OthersStillAwaited(call)
                   /\ InFlight("get_config")' = InFlight("get_config") - 1
       /\ \A call \in CallsOf("load_initial") : \A reply \in Answers(call) :
            (loadInitialDataDone(call, reply) /\ reply.ok /\ InitialDataMeetsInitialData)
                => /\ config' = Some(reply.value.config)
                   /\ models' = reply.value.models
                   /\ OthersStillAwaited(call)
                   /\ InFlight("load_initial")' = InFlight("load_initial") - 1
       /\ InFlight("get_config")' < InFlight("get_config")
            => \E call \in CallsOf("get_config") : \E reply \in Answers(call) :
                  gpuFallbackDone(call, reply)
       /\ InFlight("load_initial")' < InFlight("load_initial")
            => \E call \in CallsOf("load_initial") : \E reply \in Answers(call) :
                  loadInitialDataDone(call, reply)]_vars

(* of two overlapping reloads, the reply computed later has been applied   *)
(* (the draft is the backend's configuration as it is now) and the reply   *)
(* computed earlier, from a configuration the backend no longer has, is    *)
(* still on its way                                                        *)
C25_Witness ==
    /\ lastReset # Null
    /\ Val(lastReset).by = "gpu-fallback"
    /\ pendingConfig = Some(backendConfig)
    /\ \E call \in CallsOf("get_config") :
          /\ IsHandled(call)
          /\ call.reply.ok
          /\ call.reply.value # backendConfig
====
